---- MODULE Spec2Model ----
(***************************************************************************)
(* Model of src/bot.py (class RustSkinTelegramBot): the per-user monitor   *)
(* loop, the opportunity evaluator, the creator cache and the handlers     *)
(* that start, stop, reset and configure a user's monitoring.              *)
(*                                                                         *)
(* Scheduling.  Everything runs on one asyncio event loop.  Code between   *)
(* two awaits that really suspend runs without interleaving; requests.get  *)
(* and sqlite calls block and are not suspension points.  The suspension   *)
(* points of a loop task are asyncio.sleep(30) (line 1071), the sleeps     *)
(* inside attempt_steam_purchase (lines 1492..1621) and the send inside    *)
(* send_user_message (line 1734).  A task in pc "iter" is executing the    *)
(* for loop of check_new_skins_for_user and nothing else can run.  The     *)
(* Application is built without concurrent updates (line 45), so update    *)
(* handlers run one after the other, and a task made ready by create_task  *)
(* or by cancel() is stepped by the event loop before the next update is   *)
(* handled: handlers are enabled only in Quiescent states.                 *)
(***************************************************************************)
EXTENDS Integers, Sequences, FiniteSets, TLC

\* ---- bounds of the model ----
NItems == 2
NCreators == 2
MaxFeed == 2
MaxTasks == 2
MaxQuota == 2
MaxTotal == 2

\* ---- program constants ----
DefaultMaxPriceCents == 1000
MaxItemAgeDays == 3
HttpOk == 200
HttpNotFound == 404
HttpServerError == 500
\* a requests.get that raises (timeout, connection error) has no status
TransportError == 0
\* JSON null / a missing key
None == -1
\* a timestamp string datetime.fromisoformat cannot parse
BadTime == -2

\* Telegram user ids
Users == {1, 2}
ItemIds == 1..NItems
CreatorIds == 1..NCreators
TaskIds == 1..MaxTasks
NoToken == "None"
Tokens == {"sessionid"}
Prices == {None, 0, 700, 1500}

VARIABLES
  user_sessions,    \* self.user_sessions: user -> session dict (without processed_skins)
  processed_skins,  \* session['processed_skins'] of every user
  known_creators,   \* self.known_creators
  monitoring_tasks, \* self.monitoring_tasks: user -> task, 0 when the key is absent
  tasks,            \* the asyncio tasks running monitor_user_skins
  db_sessions,      \* table user_sessions
  db_processed,     \* table processed_skins
  db_creators,      \* table creators: creator -> skin_count, 0 when there is no row
  db_first_seen,    \* table creators: creator -> first_seen, 0 when there is no row
  purchases,        \* table purchases: per user, the rows in insertion order
  calls             \* what the last step did to the outside: the item it accepted
                    \* and the calls of attempt_steam_purchase and send_user_message

vars == <<user_sessions, processed_skins, known_creators, monitoring_tasks, tasks,
          db_sessions, db_processed, db_creators, db_first_seen, purchases, calls>>

\* pcs at which a task is suspended inside the while loop of monitor_user_skins
LoopPcs == {"created", "iter", "sleep", "purchase", "confirm", "notify"}
\* pcs between the increment of purchased_count and the INSERT into purchases
OpportunityPcs == {"purchase", "confirm", "notify"}

\* user: the user the step worked for (0: a handler, or nothing to report);
\* accepted: the id of the item record_opportunity_for_user was called for (0: none)
\* and price, its market_price; purchase: attempt_steam_purchase was called; send:
\* the kind of message send_user_message was called with ("opportunity", "quota",
\* "none"); lookups: the number of requests is_first_time_creator made
NoCalls == [user |-> 0, accepted |-> 0, price |-> 0, purchase |-> FALSE, send |-> "none",
            lookups |-> 0]
Called(u, send) == calls' = [NoCalls EXCEPT !.user = u, !.send = send]
\* the calls of record_opportunity_for_user; the requests made before it was
\* called are those process_item_for_user counts
Accepted(u, it, purchase, send) ==
  \E n \in 0..2 :
    calls' = [user |-> u, accepted |-> it.id, price |-> it.price, purchase |-> purchase,
              send |-> send, lookups |-> n]

NoItem == [id |-> 0, creator |-> 0]
FreeTask == [user |-> 0, pc |-> "free", cancel |-> FALSE, page |-> <<>>,
             cur |-> NoItem, success |-> FALSE]

\* get_user_session, new user branch: the defaults of a session.  max_purchases
\* is 10 in the code (line 151, and the column default of line 61) and no code
\* writes it; the model scales the quota down to a value of 1..MaxQuota.
NewSession(maxp) ==
  [steam_session_token |-> NoToken, is_monitoring |-> FALSE, purchased_count |-> 0,
   max_purchases |-> maxp, auto_purchase |-> TRUE,
   max_price_cents |-> DefaultMaxPriceCents, test_mode |-> FALSE]

\* the state after __init__ when the users in U have a stored session row
InitOf(U) ==
  /\ \E q \in [U -> 1..MaxQuota] :
       LET rows == [u \in Users |-> NewSession(IF u \in U THEN q[u] ELSE MaxQuota)]
       IN user_sessions = rows /\ db_sessions = rows
  /\ processed_skins = [u \in Users |-> {}]
  /\ db_processed = [u \in Users |-> {}]
  /\ known_creators = {}
  /\ db_creators = [c \in CreatorIds |-> 0]
  /\ db_first_seen = [c \in CreatorIds |-> 0]
  /\ monitoring_tasks = [u \in Users |-> 0]
  /\ tasks = [t \in TaskIds |-> FreeTask]
  /\ purchases = [u \in Users |-> <<>>]
  /\ calls = NoCalls

\* ---- scheduling ----
\* no task is running or waiting in the ready queue of the event loop
Quiescent == \A t \in TaskIds : tasks[t].pc \notin {"created", "iter"} /\ ~tasks[t].cancel
\* no other task is in the middle of a synchronous run
MayRun(t) == \A o \in TaskIds \ {t} : tasks[o].pc # "iter"

\* ---- the session store ----
\* update_user_session(user_id, key=value): memory and table together
UpdateUserSession(u, key, value) ==
  /\ user_sessions' = [user_sessions EXCEPT ![u][key] = value]
  /\ db_sessions' = [db_sessions EXCEPT ![u][key] = value]

\* the first task slot that holds no task
FreeSlots == {t \in TaskIds : tasks[t].pc \in {"free", "done"}}
NewTaskId == CHOOSE t \in FreeSlots : \A o \in FreeSlots : t <= o

\* ---- handlers ----
\* lines 495-500 and 943-948: set the flag, create the task, register it
SpawnMonitor(u) ==
  /\ FreeSlots # {}
  /\ UpdateUserSession(u, "is_monitoring", TRUE)
  /\ tasks' = [tasks EXCEPT ![NewTaskId] = [FreeTask EXCEPT !.user = u, !.pc = "created"]]
  /\ monitoring_tasks' = [monitoring_tasks EXCEPT ![u] = NewTaskId]
  /\ UNCHANGED <<processed_skins, known_creators, db_processed, db_creators, db_first_seen,
                 purchases>>
  /\ calls' = NoCalls

\* faulty variant: /monitor without the quota test of lines 488-493
StartMonitoringCommandWithoutQuotaTest(u) ==
  /\ Quiescent
  /\ IF \/ user_sessions[u].steam_session_token = NoToken
        \/ user_sessions[u].is_monitoring
     THEN UNCHANGED vars
     ELSE SpawnMonitor(u)

\* /monitor: the token is required whatever the mode
StartMonitoringCommand(u) ==
  /\ Quiescent
  /\ IF \/ user_sessions[u].steam_session_token = NoToken
        \/ user_sessions[u].is_monitoring
        \/ user_sessions[u].purchased_count >= user_sessions[u].max_purchases
     THEN UNCHANGED vars
     ELSE SpawnMonitor(u)

\* the Start Monitoring button: the token is required in live mode only
StartMonitoringInline(u) ==
  /\ Quiescent
  /\ IF \/ (~user_sessions[u].test_mode /\ user_sessions[u].steam_session_token = NoToken)
        \/ user_sessions[u].is_monitoring
        \/ user_sessions[u].purchased_count >= user_sessions[u].max_purchases
     THEN UNCHANGED vars
     ELSE SpawnMonitor(u)

\* faulty variant: stop flips the flag like the toggle handlers do, without the
\* test of lines 516 and 971
StopMonitoringAsToggle(u) ==
  /\ UpdateUserSession(u, "is_monitoring", ~user_sessions[u].is_monitoring)
  /\ LET t == monitoring_tasks[u] IN
       /\ tasks' = IF t # 0 /\ tasks[t].pc \notin {"free", "done"}
                   THEN [tasks EXCEPT ![t].cancel = TRUE]
                   ELSE tasks
       /\ monitoring_tasks' = [monitoring_tasks EXCEPT ![u] = 0]
  /\ UNCHANGED <<processed_skins, known_creators, db_processed, db_creators, db_first_seen,
                 purchases>>
  /\ calls' = NoCalls

\* lines 516-526 and 971-984: clear the flag, cancel and unregister the task.
\* cancel() only requests the cancellation: the task sees it when it is next stepped.
StopMonitoring(u) ==
  IF ~user_sessions[u].is_monitoring
  THEN UNCHANGED vars
  ELSE /\ UpdateUserSession(u, "is_monitoring", FALSE)
       /\ LET t == monitoring_tasks[u] IN
            /\ tasks' = IF t # 0 /\ tasks[t].pc \notin {"free", "done"}
                        THEN [tasks EXCEPT ![t].cancel = TRUE]
                        ELSE tasks
            /\ monitoring_tasks' = [monitoring_tasks EXCEPT ![u] = 0]
       /\ UNCHANGED <<processed_skins, known_creators, db_processed, db_creators, db_first_seen,
                      purchases>>
       /\ calls' = NoCalls

StopMonitoringCommand(u) == Quiescent /\ StopMonitoring(u)

StopMonitoringInline(u) == Quiescent /\ StopMonitoring(u)

\* faulty variant: "Yes, Reset Everything" also deletes the purchases of the user
ResetConfirmDeletesPurchases(u, user_id_to_reset) ==
  /\ Quiescent
  /\ IF u = user_id_to_reset
     THEN /\ UpdateUserSession(u, "purchased_count", 0)
          /\ processed_skins' = [processed_skins EXCEPT ![u] = {}]
          /\ db_processed' = [db_processed EXCEPT ![u] = {}]
          /\ purchases' = [purchases EXCEPT ![u] = <<>>]
          /\ UNCHANGED <<known_creators, monitoring_tasks, tasks, db_creators, db_first_seen>>
          /\ calls' = NoCalls
     ELSE UNCHANGED vars

\* faulty variant: the id embedded in the callback data is not compared with the
\* id of the user who pressed the button (the test of line 629 is missing)
ResetConfirmWithoutSecurityCheck(u, user_id_to_reset) ==
  /\ Quiescent
  /\ UpdateUserSession(u, "purchased_count", 0)
  /\ processed_skins' = [processed_skins EXCEPT ![u] = {}]
  /\ db_processed' = [db_processed EXCEPT ![u] = {}]
  /\ UNCHANGED <<known_creators, monitoring_tasks, tasks, db_creators, db_first_seen,
                 purchases>>
  /\ calls' = NoCalls

\* button_callback, data "reset_confirm_<id>" pressed by user u
ResetConfirm(u, user_id_to_reset) ==
  /\ Quiescent
  /\ IF u = user_id_to_reset
     THEN /\ UpdateUserSession(u, "purchased_count", 0)
          /\ processed_skins' = [processed_skins EXCEPT ![u] = {}]
          /\ db_processed' = [db_processed EXCEPT ![u] = {}]
          /\ UNCHANGED <<known_creators, monitoring_tasks, tasks, db_creators, db_first_seen,
                         purchases>>
          /\ calls' = NoCalls
     ELSE UNCHANGED vars

ToggleTestMode(u) ==
  /\ Quiescent
  /\ UpdateUserSession(u, "test_mode", ~user_sessions[u].test_mode)
  /\ UNCHANGED <<processed_skins, known_creators, monitoring_tasks, tasks, db_processed,
                 db_creators, db_first_seen, purchases>>
  /\ calls' = NoCalls

ToggleAutoPurchase(u) ==
  /\ Quiescent
  /\ UpdateUserSession(u, "auto_purchase", ~user_sessions[u].auto_purchase)
  /\ UNCHANGED <<processed_skins, known_creators, monitoring_tasks, tasks, db_processed,
                 db_creators, db_first_seen, purchases>>
  /\ calls' = NoCalls

\* handle_message while waiting_for_token, with a token that passes the length check
SetToken(u, token) ==
  /\ Quiescent
  /\ UpdateUserSession(u, "steam_session_token", token)
  /\ UNCHANGED <<processed_skins, known_creators, monitoring_tasks, tasks, db_processed,
                 db_creators, db_first_seen, purchases>>
  /\ calls' = NoCalls

\* faulty variant: get_user_session does not load the processed skins of the
\* user (lines 139-141 missing)
RestartWithoutProcessedSkins ==
  /\ user_sessions' = db_sessions
  /\ processed_skins' = [u \in Users |-> {}]
  /\ known_creators' = {c \in CreatorIds : db_creators[c] # 0}
  /\ monitoring_tasks' = [u \in Users |-> 0]
  /\ tasks' = [t \in TaskIds |-> FreeTask]
  /\ UNCHANGED <<db_sessions, db_processed, db_creators, db_first_seen, purchases>>
  /\ calls' = NoCalls

\* faulty variant: the cache of known creators is not loaded at start-up
\* (load_global_state is not called)
RestartWithoutGlobalState ==
  /\ user_sessions' = db_sessions
  /\ processed_skins' = db_processed
  /\ known_creators' = {}
  /\ monitoring_tasks' = [u \in Users |-> 0]
  /\ tasks' = [t \in TaskIds |-> FreeTask]
  /\ UNCHANGED <<db_sessions, db_processed, db_creators, db_first_seen, purchases>>
  /\ calls' = NoCalls

\* the process ends and is started again: __init__, load_global_state and
\* get_user_session rebuild the memory from the tables; no task survives
Restart ==
  /\ user_sessions' = db_sessions
  /\ processed_skins' = db_processed
  /\ known_creators' = {c \in CreatorIds : db_creators[c] # 0}
  /\ monitoring_tasks' = [u \in Users |-> 0]
  /\ tasks' = [t \in TaskIds |-> FreeTask]
  /\ UNCHANGED <<db_sessions, db_processed, db_creators, db_first_seen, purchases>>
  /\ calls' = NoCalls

\* ---- the item feed and the creator lookups (external data) ----
\* every item id belongs to one creator
CreatorOf(id) == ((id - 1) % NCreators) + 1

\* the pages GET /item can return: item ids, newest first, repetitions allowed
RECURSIVE SeqsUpTo(_, _)
SeqsUpTo(S, n) ==
  IF n = 0 THEN {<<>>}
  ELSE LET shorter == SeqsUpTo(S, n - 1)
       IN shorter \cup {Append(p, x) : p \in {q \in shorter : Len(q) = n - 1}, x \in S}
Pages == SeqsUpTo(ItemIds, MaxFeed)
FeedStatuses == {HttpOk, HttpServerError, TransportError}

\* the item dicts the feed can hold for an id.  Timestamps are given as the age
\* of the item in days (utcnow() minus the timestamp), None or BadTime.
GoodItem(id, price) ==
  [id |-> id, creatorId |-> CreatorOf(id), isAccepted |-> TRUE,
   timeAccepted |-> MaxItemAgeDays, timeCreated |-> None, price |-> price]
FeedItems(id) ==
  {GoodItem(id, p) : p \in Prices} \cup
  {[GoodItem(id, 700) EXCEPT !.creatorId = None],
   [GoodItem(id, 700) EXCEPT !.isAccepted = FALSE],
   [GoodItem(id, 700) EXCEPT !.timeAccepted = MaxItemAgeDays + 1, !.timeCreated = 2],
   [GoodItem(id, 700) EXCEPT !.timeCreated = MaxItemAgeDays + 1],
   [GoodItem(id, 700) EXCEPT !.timeAccepted = None, !.timeCreated = MaxItemAgeDays],
   [GoodItem(id, 700) EXCEPT !.timeAccepted = None, !.timeCreated = MaxItemAgeDays + 1],
   [GoodItem(id, 700) EXCEPT !.timeAccepted = None],
   [GoodItem(id, 700) EXCEPT !.timeAccepted = BadTime, !.timeCreated = 2]}

\* what the two requests of is_first_time_creator can answer
Lookups ==
  {[profile |-> s, items |-> TransportError, total |-> 0] :
      s \in {HttpNotFound, HttpServerError, TransportError}} \cup
  {[profile |-> HttpOk, items |-> s, total |-> 0] : s \in {HttpServerError, TransportError}} \cup
  {[profile |-> HttpOk, items |-> HttpOk, total |-> n] : n \in 0..MaxTotal}

\* no request is made
NoLookup == [profile |-> TransportError, items |-> TransportError, total |-> 0]

\* ---- the evaluator ----
\* faulty variant: the age is compared with < instead of <=
IsRecentItemStrict(time_accepted, time_created, max_age_days) ==
  LET time_str == IF time_accepted # None THEN time_accepted ELSE time_created
  IN IF time_str = None THEN FALSE
     ELSE IF time_str = BadTime THEN FALSE
     ELSE time_str < max_age_days

\* faulty variant: an item whose age cannot be determined counts as recent
IsRecentItemFailOpen(time_accepted, time_created, max_age_days) ==
  LET time_str == IF time_accepted # None THEN time_accepted ELSE time_created
  IN IF time_str = None THEN TRUE
     ELSE IF time_str = BadTime THEN TRUE
     ELSE time_str <= max_age_days

\* is_recent_item: timeAccepted if present, else timeCreated; no timestamp or an
\* unparsable one gives False; otherwise item_age <= timedelta(days=max_age_days)
IsRecentItem(time_accepted, time_created, max_age_days) ==
  LET time_str == IF time_accepted # None THEN time_accepted ELSE time_created
  IN IF time_str = None THEN FALSE
     ELSE IF time_str = BadTime THEN FALSE
     ELSE time_str <= max_age_days

\* faulty variant: a request that raises makes the creator not first-time
IsFirstTimeCreatorFailClosed(creator_id, lk) ==
  IF creator_id \in known_creators THEN [first |-> FALSE, skin_count |-> 0, requests |-> 0]
  ELSE IF lk.profile = TransportError THEN [first |-> FALSE, skin_count |-> 0, requests |-> 1]
  ELSE IF lk.profile = HttpOk THEN
         IF lk.items = TransportError THEN [first |-> FALSE, skin_count |-> 0, requests |-> 2]
         ELSE IF lk.items = HttpOk THEN
                IF lk.total > 1 THEN [first |-> FALSE, skin_count |-> lk.total, requests |-> 2]
                ELSE [first |-> lk.total <= 1, skin_count |-> 0, requests |-> 2]
         ELSE [first |-> TRUE, skin_count |-> 0, requests |-> 2]
  ELSE IF lk.profile = HttpNotFound THEN [first |-> TRUE, skin_count |-> 0, requests |-> 1]
  ELSE [first |-> TRUE, skin_count |-> 0, requests |-> 1]

\* faulty variant: a creator who already has one item is disqualified
IsFirstTimeCreatorThresholdOne(creator_id, lk) ==
  IF creator_id \in known_creators THEN [first |-> FALSE, skin_count |-> 0, requests |-> 0]
  ELSE IF lk.profile = TransportError THEN [first |-> TRUE, skin_count |-> 0, requests |-> 1]
  ELSE IF lk.profile = HttpOk THEN
         IF lk.items = TransportError THEN [first |-> TRUE, skin_count |-> 0, requests |-> 2]
         ELSE IF lk.items = HttpOk THEN
                IF lk.total >= 1 THEN [first |-> FALSE, skin_count |-> lk.total, requests |-> 2]
                ELSE [first |-> TRUE, skin_count |-> 0, requests |-> 2]
         ELSE [first |-> TRUE, skin_count |-> 0, requests |-> 2]
  ELSE IF lk.profile = HttpNotFound THEN [first |-> TRUE, skin_count |-> 0, requests |-> 1]
  ELSE [first |-> TRUE, skin_count |-> 0, requests |-> 1]

\* faulty variant: the cache of known creators is not consulted (lines 1670-1671
\* missing)
IsFirstTimeCreatorWithoutCache(creator_id, lk) ==
  IF lk.profile = TransportError THEN [first |-> TRUE, skin_count |-> 0, requests |-> 1]
  ELSE IF lk.profile = HttpOk THEN
         IF lk.items = TransportError THEN [first |-> TRUE, skin_count |-> 0, requests |-> 2]
         ELSE IF lk.items = HttpOk THEN
                IF lk.total > 1 THEN [first |-> FALSE, skin_count |-> lk.total, requests |-> 2]
                ELSE [first |-> lk.total <= 1, skin_count |-> 0, requests |-> 2]
         ELSE [first |-> TRUE, skin_count |-> 0, requests |-> 2]
  ELSE IF lk.profile = HttpNotFound THEN [first |-> TRUE, skin_count |-> 0, requests |-> 1]
  ELSE [first |-> TRUE, skin_count |-> 0, requests |-> 1]

\* faulty variant: the cache of known creators is consulted after the requests
\* instead of before them
IsFirstTimeCreatorChecksCacheLast(creator_id, lk) ==
  IF lk.profile = TransportError
  THEN [first |-> creator_id \notin known_creators, skin_count |-> 0, requests |-> 1]
  ELSE IF lk.profile = HttpOk THEN
         IF creator_id \in known_creators
         THEN [first |-> FALSE, skin_count |-> 0, requests |-> 2]
         ELSE IF lk.items = TransportError THEN [first |-> TRUE, skin_count |-> 0, requests |-> 2]
         ELSE IF lk.items = HttpOk THEN
                IF lk.total > 1 THEN [first |-> FALSE, skin_count |-> lk.total, requests |-> 2]
                ELSE [first |-> lk.total <= 1, skin_count |-> 0, requests |-> 2]
         ELSE [first |-> TRUE, skin_count |-> 0, requests |-> 2]
  ELSE [first |-> creator_id \notin known_creators, skin_count |-> 0, requests |-> 1]

\* is_first_time_creator: the verdict, the skin_count it stores with
\* add_creator_to_db (0: nothing is stored) and the number of requests.get calls
\* it made (the profile summary, then the items of the creator)
IsFirstTimeCreator(creator_id, lk) ==
  IF creator_id \in known_creators THEN [first |-> FALSE, skin_count |-> 0, requests |-> 0]
  ELSE IF lk.profile = TransportError THEN [first |-> TRUE, skin_count |-> 0, requests |-> 1]
  ELSE IF lk.profile = HttpOk THEN
         IF lk.items = TransportError THEN [first |-> TRUE, skin_count |-> 0, requests |-> 2]
         ELSE IF lk.items = HttpOk THEN
                IF lk.total > 1 THEN [first |-> FALSE, skin_count |-> lk.total, requests |-> 2]
                ELSE [first |-> lk.total <= 1, skin_count |-> 0, requests |-> 2]
         ELSE [first |-> TRUE, skin_count |-> 0, requests |-> 2]
  ELSE IF lk.profile = HttpNotFound THEN [first |-> TRUE, skin_count |-> 0, requests |-> 1]
  ELSE [first |-> TRUE, skin_count |-> 0, requests |-> 1]

\* faulty variant: the creator is cached in memory but the row is not written
AddCreatorToMemoryOnly(creator_id, skin_count) ==
  /\ known_creators' = known_creators \cup {creator_id}
  /\ UNCHANGED <<db_creators, db_first_seen>>

\* datetime.now() of line 1727.  The clock goes forward between two writes of the
\* table, so a timestamp is modelled by its rank: one more than the latest
\* first_seen the table holds (0 when the table has no row)
Now ==
  1 + (CHOOSE m \in {db_first_seen[c] : c \in CreatorIds} :
         \A c \in CreatorIds : db_first_seen[c] <= m)

\* add_creator_to_db: INSERT OR REPLACE into creators, then add to the set
AddCreatorToDb(creator_id, skin_count) ==
  /\ db_creators' = [db_creators EXCEPT ![creator_id] = skin_count]
  /\ db_first_seen' = [db_first_seen EXCEPT ![creator_id] = Now]
  /\ known_creators' = known_creators \cup {creator_id}

\* faulty variant: the test_mode branch is missing
PurchasePolicyWithoutTestMode(session, market_price) ==
  IF market_price = None THEN "raise"
  ELSE IF /\ session.auto_purchase
          /\ session.steam_session_token # NoToken
          /\ market_price > 0
          /\ market_price <= session.max_price_cents
       THEN "attempt"
  ELSE "skip"

\* faulty variant: the price ceiling is not tested
PurchasePolicyWithoutCeiling(session, market_price) ==
  IF market_price = None THEN "raise"
  ELSE IF session.test_mode THEN "test"
  ELSE IF /\ session.auto_purchase
          /\ session.steam_session_token # NoToken
          /\ market_price > 0
       THEN "attempt"
  ELSE "skip"

\* the purchase policy of record_opportunity_for_user (lines 1254-1302):
\* "raise": market_price is None and the arithmetic on it raises TypeError;
\* "test": test mode, nothing is bought; "attempt": attempt_steam_purchase is
\* called; "skip": live mode and the condition of line 1275 is false
PurchasePolicy(session, market_price) ==
  IF market_price = None THEN "raise"
  ELSE IF session.test_mode THEN "test"
  ELSE IF /\ session.auto_purchase
          /\ session.steam_session_token # NoToken
          /\ market_price > 0
          /\ market_price <= session.max_price_cents
       THEN "attempt"
  ELSE "skip"

\* faulty variant: the while loop tests the flag only
LoopConditionWithoutQuota(session) == session.is_monitoring

\* faulty variant: the quota is compared with <= instead of <
LoopConditionOffByOne(session) ==
  session.is_monitoring /\ session.purchased_count <= session.max_purchases

\* the condition of the while loop of monitor_user_skins (line 1069)
LoopCondition(session) ==
  session.is_monitoring /\ session.purchased_count < session.max_purchases

\* faulty variant: the membership test of the dedup is missing
DedupTestSkipped(u, item_id) == FALSE

\* the dedup test of line 1114
AlreadyProcessed(u, item_id) == item_id \in processed_skins[u]

\* faulty variant: the for loop has no break on the quota
AfterItemWithoutBreak(t, count, rest, check_quota) ==
  IF rest = <<>>
  THEN [tasks EXCEPT ![t].pc = "sleep", ![t].page = <<>>, ![t].cur = NoItem,
                     ![t].success = FALSE]
  ELSE [tasks EXCEPT ![t].pc = "iter", ![t].page = rest, ![t].cur = NoItem,
                     ![t].success = FALSE]

\* lines 1126-1129 and the end of the for loop: the task goes on with the rest of
\* the page, or leaves the loop and sleeps (line 1071)
AfterItem(t, count, rest, check_quota) ==
  IF rest = <<>> \/ (check_quota /\ count >= user_sessions[tasks[t].user].max_purchases)
  THEN [tasks EXCEPT ![t].pc = "sleep", ![t].page = <<>>, ![t].cur = NoItem,
                     ![t].success = FALSE]
  ELSE [tasks EXCEPT ![t].pc = "iter", ![t].page = rest, ![t].cur = NoItem,
                     ![t].success = FALSE]

\* faulty variant: the creator is not recorded when the opportunity is accepted
\* (line 1225 missing)
RecordOpportunityWithoutCreator(t, u, it, rest) ==
  LET session == user_sessions[u]
      InFlight(pc) == [tasks EXCEPT ![t].pc = pc, ![t].page = rest, ![t].success = FALSE,
                         ![t].cur = [id |-> it.id, creator |-> it.creatorId]]
  IN
  /\ UNCHANGED <<known_creators, db_creators, db_first_seen>>
  /\ UpdateUserSession(u, "purchased_count", session.purchased_count + 1)
  /\ LET policy == PurchasePolicy(session, it.price) IN
     IF policy = "raise"
     THEN /\ tasks' = AfterItem(t, session.purchased_count + 1, rest, TRUE)
          /\ Accepted(u, it, FALSE, "none")
     ELSE IF policy = "attempt"
     THEN \/ /\ tasks' = InFlight("purchase")
             /\ Accepted(u, it, TRUE, "none")
          \/ /\ tasks' = InFlight("notify")
             /\ Accepted(u, it, TRUE, "opportunity")
     ELSE /\ tasks' = InFlight("notify")
          /\ Accepted(u, it, FALSE, "opportunity")
  /\ UNCHANGED <<monitoring_tasks, purchases>>

\* faulty variant: test mode simulates the purchase and draws its outcome
RecordOpportunitySimulatesOutcome(t, u, it, rest) ==
  LET session == user_sessions[u]
      InFlight(pc, success) ==
        [tasks EXCEPT ![t].pc = pc, ![t].page = rest, ![t].success = success,
                      ![t].cur = [id |-> it.id, creator |-> it.creatorId]]
  IN
  /\ AddCreatorToDb(it.creatorId, 1)
  /\ UpdateUserSession(u, "purchased_count", session.purchased_count + 1)
  /\ LET policy == PurchasePolicy(session, it.price) IN
     IF policy = "raise"
     THEN /\ tasks' = AfterItem(t, session.purchased_count + 1, rest, TRUE)
          /\ Accepted(u, it, FALSE, "none")
     ELSE IF policy = "attempt"
     THEN \/ /\ tasks' = InFlight("purchase", FALSE)
             /\ Accepted(u, it, TRUE, "none")
          \/ /\ tasks' = InFlight("notify", FALSE)
             /\ Accepted(u, it, TRUE, "opportunity")
     ELSE IF policy = "test"
     THEN /\ \E success \in BOOLEAN : tasks' = InFlight("notify", success)
          /\ Accepted(u, it, FALSE, "opportunity")
     ELSE /\ tasks' = InFlight("notify", FALSE)
          /\ Accepted(u, it, FALSE, "opportunity")
  /\ UNCHANGED <<monitoring_tasks, purchases>>

\* record_opportunity_for_user up to its first suspension
RecordOpportunityForUser(t, u, it, rest) ==
  LET session == user_sessions[u]
      InFlight(pc) == [tasks EXCEPT ![t].pc = pc, ![t].page = rest, ![t].success = FALSE,
                         ![t].cur = [id |-> it.id, creator |-> it.creatorId]]
  IN
  /\ AddCreatorToDb(it.creatorId, 1)
  /\ UpdateUserSession(u, "purchased_count", session.purchased_count + 1)
  /\ LET policy == PurchasePolicy(session, it.price) IN
     IF policy = "raise"
     THEN \* the TypeError is caught at line 1177: no message, no row
          /\ tasks' = AfterItem(t, session.purchased_count + 1, rest, TRUE)
          /\ Accepted(u, it, FALSE, "none")
     ELSE IF policy = "attempt"
     THEN \/ \* attempt_steam_purchase suspends in its first sleep
             /\ tasks' = InFlight("purchase")
             /\ Accepted(u, it, TRUE, "none")
          \/ \* selenium is missing or the driver fails: a failure, at once
             /\ tasks' = InFlight("notify")
             /\ Accepted(u, it, TRUE, "opportunity")
     ELSE /\ tasks' = InFlight("notify")
          /\ Accepted(u, it, FALSE, "opportunity")
  /\ UNCHANGED <<monitoring_tasks, purchases>>

\* the filters of process_item_for_user that come before the creator check
\* (lines 1158-1167)
PassesFilters(it) ==
  /\ it.isAccepted
  /\ IsRecentItem(it.timeAccepted, it.timeCreated, MaxItemAgeDays)
  /\ it.creatorId # None

\* process_item_for_user for an item that was just marked processed, when the
\* creator lookups answer lk
ProcessItemWithLookup(t, u, it, rest, lk) ==
  IF ~PassesFilters(it)
  THEN /\ tasks' = AfterItem(t, user_sessions[u].purchased_count, rest, TRUE)
       /\ UNCHANGED <<user_sessions, db_sessions, known_creators, db_creators, db_first_seen,
                      monitoring_tasks, purchases>>
       /\ calls' = NoCalls
  ELSE LET verdict == IsFirstTimeCreator(it.creatorId, lk) IN
       IF verdict.first
       THEN /\ RecordOpportunityForUser(t, u, it, rest)
            /\ calls'.lookups = verdict.requests
       ELSE /\ IF verdict.skin_count # 0
               THEN AddCreatorToDb(it.creatorId, verdict.skin_count)
               ELSE UNCHANGED <<known_creators, db_creators, db_first_seen>>
            /\ tasks' = AfterItem(t, user_sessions[u].purchased_count, rest, TRUE)
            /\ UNCHANGED <<user_sessions, db_sessions, monitoring_tasks, purchases>>
            /\ calls' = [NoCalls EXCEPT !.lookups = verdict.requests]

\* process_item_for_user for an item that was just marked processed; the answers
\* of the creator lookups are drawn only when is_first_time_creator asks
ProcessItemForUser(t, u, it, rest) ==
  \E lk \in IF PassesFilters(it) /\ it.creatorId \notin known_creators
             THEN Lookups ELSE {NoLookup} :
    ProcessItemWithLookup(t, u, it, rest, lk)

\* faulty variant: the item is marked processed after its evaluation, and only
\* when the evaluation accepted it
EvaluateItemMarksAfterwards(t) ==
  /\ tasks[t].pc = "iter"
  /\ MayRun(t)
  /\ LET u == tasks[t].user
         item_id == Head(tasks[t].page)
         rest == Tail(tasks[t].page)
     IN IF AlreadyProcessed(u, item_id)
        THEN /\ tasks' = AfterItem(t, user_sessions[u].purchased_count, rest, FALSE)
             /\ UNCHANGED <<user_sessions, processed_skins, known_creators, monitoring_tasks,
                            db_sessions, db_processed, db_creators, db_first_seen, purchases>>
             /\ calls' = NoCalls
        ELSE /\ \E it \in FeedItems(item_id) : ProcessItemForUser(t, u, it, rest)
             /\ IF calls'.accepted # 0
                THEN /\ processed_skins' = [processed_skins EXCEPT ![u] = @ \cup {item_id}]
                     /\ db_processed' = [db_processed EXCEPT ![u] = @ \cup {item_id}]
                ELSE UNCHANGED <<processed_skins, db_processed>>

\* one turn of the for loop of check_new_skins_for_user (lines 1112-1129)
EvaluateItem(t) ==
  /\ tasks[t].pc = "iter"
  /\ MayRun(t)
  /\ LET u == tasks[t].user
         item_id == Head(tasks[t].page)
         rest == Tail(tasks[t].page)
     IN IF AlreadyProcessed(u, item_id)
        THEN /\ tasks' = AfterItem(t, user_sessions[u].purchased_count, rest, FALSE)
             /\ UNCHANGED <<user_sessions, processed_skins, known_creators, monitoring_tasks,
                            db_sessions, db_processed, db_creators, db_first_seen, purchases>>
             /\ calls' = NoCalls
        ELSE /\ processed_skins' = [processed_skins EXCEPT ![u] = @ \cup {item_id}]
             /\ db_processed' = [db_processed EXCEPT ![u] = @ \cup {item_id}]
             /\ \E it \in FeedItems(item_id) : ProcessItemForUser(t, u, it, rest)

\* ---- the monitor loop task ----
DoneTask == [FreeTask EXCEPT !.pc = "done"]

\* faulty variant: the flag is not cleared when the task ends (no finally block)
TeardownKeepsFlag(t) ==
  LET u == tasks[t].user IN
  /\ monitoring_tasks' = [monitoring_tasks EXCEPT ![u] = 0]
  /\ IF user_sessions[u].purchased_count >= user_sessions[u].max_purchases
     THEN /\ tasks' = [tasks EXCEPT ![t] = [DoneTask EXCEPT !.pc = "quotanotify", !.user = u]]
          /\ Called(u, "quota")
     ELSE /\ tasks' = [tasks EXCEPT ![t] = DoneTask]
          /\ calls' = NoCalls
  /\ UNCHANGED <<user_sessions, db_sessions, processed_skins, known_creators, db_processed,
                 db_creators, db_first_seen, purchases>>

\* monitor_user_skins after the while loop: the finally block (lines 1077-1080),
\* then the quota message (lines 1082-1087) if the counter has reached the quota
Teardown(t) ==
  LET u == tasks[t].user IN
  /\ UpdateUserSession(u, "is_monitoring", FALSE)
  /\ monitoring_tasks' = [monitoring_tasks EXCEPT ![u] = 0]
  /\ IF user_sessions[u].purchased_count >= user_sessions[u].max_purchases
     THEN /\ tasks' = [tasks EXCEPT ![t] = [DoneTask EXCEPT !.pc = "quotanotify", !.user = u]]
          /\ Called(u, "quota")
     ELSE /\ tasks' = [tasks EXCEPT ![t] = DoneTask]
          /\ calls' = NoCalls
  /\ UNCHANGED <<processed_skins, known_creators, db_processed, db_creators, db_first_seen,
                 purchases>>

\* faulty variant: a failed fetch is not caught in check_new_skins_for_user (no
\* try block around the request): it ends the loop
CheckNewSkinsFetchFatal(t, status) ==
  IF status = HttpOk
  THEN /\ \E page \in Pages :
            tasks' = [tasks EXCEPT ![t].pc = IF page = <<>> THEN "sleep" ELSE "iter",
                                   ![t].page = page]
       /\ UNCHANGED <<user_sessions, processed_skins, known_creators, monitoring_tasks,
                      db_sessions, db_processed, db_creators, db_first_seen, purchases>>
       /\ calls' = NoCalls
  ELSE Teardown(t)

\* check_new_skins_for_user up to the for loop, when the GET of the feed answers
\* status: a status that is not 200 skips the if of line 1107, a request that
\* raises is caught at line 1134; both return to the sleep of line 1071
CheckNewSkinsWithStatus(t, status) ==
  /\ IF status = HttpOk
     THEN \E page \in Pages :
            tasks' = [tasks EXCEPT ![t].pc = IF page = <<>> THEN "sleep" ELSE "iter",
                                   ![t].page = page]
     ELSE tasks' = [tasks EXCEPT ![t].pc = "sleep"]
  /\ UNCHANGED <<user_sessions, processed_skins, known_creators, monitoring_tasks,
                 db_sessions, db_processed, db_creators, db_first_seen, purchases>>
  /\ calls' = NoCalls

\* check_new_skins_for_user up to the for loop: one GET of the feed
CheckNewSkinsForUser(t) ==
  \E status \in FeedStatuses : CheckNewSkinsWithStatus(t, status)

\* the task is stepped at the head of the while loop (line 1069): when it starts
\* and every time asyncio.sleep(30) returns
MonitorUserSkins(t) ==
  /\ tasks[t].pc \in {"created", "sleep"}
  /\ ~tasks[t].cancel
  /\ MayRun(t)
  /\ LET session == user_sessions[tasks[t].user] IN
     IF LoopCondition(session)
     THEN CheckNewSkinsForUser(t)
     ELSE Teardown(t)

\* faulty variant: a failed purchase is not turned into an outcome (no try block
\* at lines 1280-1296): the error is caught in process_item_for_user and the for
\* loop goes on without a message and without a row
PurchaseReturnsFailureRaises(t, success) ==
  IF success
  THEN /\ tasks' = [tasks EXCEPT ![t].pc = "notify", ![t].success = success,
                                 ![t].cancel = FALSE]
       /\ Called(tasks[t].user, "opportunity")
  ELSE /\ tasks' = AfterItem(t, user_sessions[tasks[t].user].purchased_count,
                             tasks[t].page, TRUE)
       /\ calls' = NoCalls

\* attempt_steam_purchase returns to record_opportunity_for_user, which builds
\* the message and calls send_user_message (line 1337)
PurchaseReturns(t, success) ==
  /\ tasks' = [tasks EXCEPT ![t].pc = "notify", ![t].success = success, ![t].cancel = FALSE]
  /\ Called(tasks[t].user, "opportunity")

\* attempt_steam_purchase is resumed in one of its sleeps outside the inner try
\* (lines 1492-1537, 1589-1610)
AttemptSteamPurchase(t) ==
  /\ tasks[t].pc = "purchase"
  /\ ~tasks[t].cancel
  /\ MayRun(t)
  /\ \/ \E success \in BOOLEAN : PurchaseReturns(t, success)
     \/ /\ tasks' = [tasks EXCEPT ![t].pc = "confirm"]
        /\ calls' = NoCalls
  /\ UNCHANGED <<user_sessions, processed_skins, known_creators, monitoring_tasks,
                 db_sessions, db_processed, db_creators, db_first_seen, purchases>>

\* attempt_steam_purchase is resumed in a sleep of the try block of lines 1613-1631
ConfirmPurchase(t) ==
  /\ tasks[t].pc = "confirm"
  /\ ~tasks[t].cancel
  /\ MayRun(t)
  /\ \/ \E success \in BOOLEAN : PurchaseReturns(t, success)
     \/ /\ tasks' = [tasks EXCEPT ![t].pc = "purchase"]
        /\ calls' = NoCalls
  /\ UNCHANGED <<user_sessions, processed_skins, known_creators, monitoring_tasks,
                 db_sessions, db_processed, db_creators, db_first_seen, purchases>>

\* send_user_message returns: the INSERT into purchases (lines 1339-1355), then
\* back in the for loop
RecordPurchase(t) ==
  /\ tasks[t].pc = "notify"
  /\ ~tasks[t].cancel
  /\ MayRun(t)
  /\ LET u == tasks[t].user IN
       /\ purchases' = [purchases EXCEPT ![u] =
                          Append(@, [skin_id |-> tasks[t].cur.id,
                                     creator_id |-> tasks[t].cur.creator,
                                     success |-> tasks[t].success])]
       /\ tasks' = AfterItem(t, user_sessions[u].purchased_count, tasks[t].page, TRUE)
  /\ UNCHANGED <<user_sessions, processed_skins, known_creators, monitoring_tasks,
                 db_sessions, db_processed, db_creators, db_first_seen>>
  /\ calls' = NoCalls

\* the quota message has been sent: monitor_user_skins returns
QuotaMessageSent(t) ==
  /\ tasks[t].pc = "quotanotify"
  /\ MayRun(t)
  /\ tasks' = [tasks EXCEPT ![t] = DoneTask]
  /\ UNCHANGED <<user_sessions, processed_skins, known_creators, monitoring_tasks,
                 db_sessions, db_processed, db_creators, db_first_seen, purchases>>
  /\ calls' = NoCalls

\* a cancelled task is stepped: CancelledError is raised at the await where it is
\* suspended.  It is a BaseException: the "except Exception" clauses of lines 1134,
\* 1177, 1294, 1579, 1659 and 1739 let it through, "except asyncio.CancelledError"
\* of line 1072 catches it, and the finally block and the rest of
\* monitor_user_skins run.
CancelledAtAwait(t) ==
  /\ tasks[t].cancel
  /\ tasks[t].pc \in {"sleep", "purchase", "notify"}
  /\ MayRun(t)
  /\ Teardown(t)

\* a cancelled task is stepped while it sleeps at line 1618 or 1621: the bare
\* "except:" of line 1630 catches CancelledError and the for loop over the
\* buy-now buttons continues; the cancellation is lost
CancelSwallowed(t) ==
  /\ tasks[t].cancel
  /\ tasks[t].pc = "confirm"
  /\ MayRun(t)
  /\ \/ /\ tasks' = [tasks EXCEPT ![t].pc = "purchase", ![t].cancel = FALSE]
        /\ calls' = NoCalls
     \/ PurchaseReturns(t, FALSE)
  /\ UNCHANGED <<user_sessions, processed_skins, known_creators, monitoring_tasks,
                 db_sessions, db_processed, db_creators, db_first_seen, purchases>>

\* an exception reaches the while loop of monitor_user_skins.  Every error of the
\* feed request and of the evaluation is caught below (lines 1134, 1177), so this
\* is an error raised outside those try blocks, such as get_user_session at line
\* 1093: it is drawn as an event of the environment.  "except Exception" of line
\* 1074 logs it and sends the error text to the user (line 1076); the task is
\* suspended in that send with the flag still set
LoopFatalError(t) ==
  /\ tasks[t].pc \in {"created", "sleep"}
  /\ ~tasks[t].cancel
  /\ MayRun(t)
  /\ LoopCondition(user_sessions[tasks[t].user])
  /\ tasks' = [tasks EXCEPT ![t].pc = "errornotify"]
  /\ Called(tasks[t].user, "error")
  /\ UNCHANGED <<user_sessions, processed_skins, known_creators, monitoring_tasks,
                 db_sessions, db_processed, db_creators, db_first_seen, purchases>>

\* faulty variant: after the error message the loop is entered again
ErrorMessageSentRestartsLoop(t) ==
  /\ tasks[t].pc = "errornotify"
  /\ MayRun(t)
  /\ tasks' = [tasks EXCEPT ![t].pc = "created", ![t].cancel = FALSE]
  /\ calls' = NoCalls
  /\ UNCHANGED <<user_sessions, processed_skins, known_creators, monitoring_tasks,
                 db_sessions, db_processed, db_creators, db_first_seen, purchases>>

\* the send of the error message returns: the finally block (lines 1077-1080),
\* then the quota test of line 1082.  When the task was cancelled during the send,
\* CancelledError leaves the except clause: the finally block runs and the task
\* ends without the quota test
ErrorMessageSent(t) ==
  /\ tasks[t].pc = "errornotify"
  /\ MayRun(t)
  /\ IF tasks[t].cancel
     THEN /\ UpdateUserSession(tasks[t].user, "is_monitoring", FALSE)
          /\ monitoring_tasks' = [monitoring_tasks EXCEPT ![tasks[t].user] = 0]
          /\ tasks' = [tasks EXCEPT ![t] = DoneTask]
          /\ calls' = NoCalls
          /\ UNCHANGED <<processed_skins, known_creators, db_processed, db_creators, db_first_seen,
                         purchases>>
     ELSE Teardown(t)

\* the steps of the handlers of the users in U and of the tasks
NextOf(U) ==
  \/ \E u \in U : StartMonitoringCommand(u)
  \/ \E u \in U : StartMonitoringInline(u)
  \/ \E u \in U : StopMonitoringCommand(u)
  \/ \E u \in U : StopMonitoringInline(u)
  \/ \E u \in U, r \in Users : ResetConfirm(u, r)
  \/ \E u \in U : ToggleTestMode(u)
  \/ \E u \in U : ToggleAutoPurchase(u)
  \/ \E u \in U, token \in Tokens : SetToken(u, token)
  \/ Restart
  \/ \E t \in TaskIds : MonitorUserSkins(t)
  \/ \E t \in TaskIds : EvaluateItem(t)
  \/ \E t \in TaskIds : AttemptSteamPurchase(t)
  \/ \E t \in TaskIds : ConfirmPurchase(t)
  \/ \E t \in TaskIds : RecordPurchase(t)
  \/ \E t \in TaskIds : QuotaMessageSent(t)
  \/ \E t \in TaskIds : CancelledAtAwait(t)
  \/ \E t \in TaskIds : CancelSwallowed(t)

\* one user talks to the bot
Init == InitOf({1})

Next == NextOf({1})

Spec == Init /\ [][Next]_vars

\* two users talk to the bot, both with test mode switched on beforehand (the
\* state after ToggleTestMode for each of them) and with the largest quota; they
\* start and stop with the buttons and reset
TestModeOn(rows) == [u \in Users |-> [rows[u] EXCEPT !.test_mode = TRUE]]

InitTestDuo ==
  /\ LET rows == TestModeOn([u \in Users |-> NewSession(MaxQuota)])
     IN user_sessions = rows /\ db_sessions = rows
  /\ processed_skins = [u \in Users |-> {}]
  /\ db_processed = [u \in Users |-> {}]
  /\ known_creators = {}
  /\ db_creators = [c \in CreatorIds |-> 0]
  /\ db_first_seen = [c \in CreatorIds |-> 0]
  /\ monitoring_tasks = [u \in Users |-> 0]
  /\ tasks = [t \in TaskIds |-> FreeTask]
  /\ purchases = [u \in Users |-> <<>>]
  /\ calls = NoCalls

NextDuo ==
  \/ \E u \in Users : StartMonitoringInline(u)
  \/ \E u \in Users : StopMonitoringInline(u)
  \/ \E u \in Users, r \in Users : ResetConfirm(u, r)
  \/ Restart
  \/ \E t \in TaskIds : MonitorUserSkins(t)
  \/ \E t \in TaskIds : EvaluateItem(t)
  \/ \E t \in TaskIds : RecordPurchase(t)
  \/ \E t \in TaskIds : QuotaMessageSent(t)
  \/ \E t \in TaskIds : CancelledAtAwait(t)

SpecDuo == InitTestDuo /\ [][NextDuo]_vars

\* two users in test mode whose loops can also end by an error that reaches the
\* while loop
NextFault ==
  \/ NextDuo
  \/ \E t \in TaskIds : LoopFatalError(t)
  \/ \E t \in TaskIds : ErrorMessageSent(t)

SpecFault == InitTestDuo /\ [][NextFault]_vars

\* the user never stops, never resets and the process is never restarted: what a
\* loop does when it is left alone
NextLive ==
  \/ \E u \in {1} : StartMonitoringCommand(u)
  \/ \E u \in {1} : StartMonitoringInline(u)
  \/ \E u \in {1} : ToggleTestMode(u)
  \/ \E u \in {1} : ToggleAutoPurchase(u)
  \/ \E u \in {1}, token \in Tokens : SetToken(u, token)
  \/ \E t \in TaskIds : MonitorUserSkins(t)
  \/ \E t \in TaskIds : EvaluateItem(t)
  \/ \E t \in TaskIds : AttemptSteamPurchase(t)
  \/ \E t \in TaskIds : ConfirmPurchase(t)
  \/ \E t \in TaskIds : RecordPurchase(t)
  \/ \E t \in TaskIds : QuotaMessageSent(t)

\* a step of a task: the event loop resumes every task that is ready, every sleep
\* and every send returns
TaskStep ==
  \E t \in TaskIds :
    \/ MonitorUserSkins(t)
    \/ EvaluateItem(t)
    \/ AttemptSteamPurchase(t)
    \/ ConfirmPurchase(t)
    \/ RecordPurchase(t)
    \/ QuotaMessageSent(t)

\* attempt_steam_purchase returns: its loops over selectors and buttons are finite
\* and every wait of the driver has a timeout
PurchaseCompletes ==
  \E t \in TaskIds :
    /\ AttemptSteamPurchase(t) \/ ConfirmPurchase(t)
    /\ tasks'[t].pc = "notify"

SpecLive ==
  /\ Init
  /\ [][NextLive]_vars
  /\ WF_vars(TaskStep)
  /\ SF_vars(PurchaseCompletes)

\* the user starts and stops, and the event loop is fair to the tasks: what a stop
\* does to a loop (no reset, no restart of the process)
NextStop ==
  \/ NextLive
  \/ \E u \in {1} : StopMonitoringCommand(u)
  \/ \E u \in {1} : StopMonitoringInline(u)
  \/ \E t \in TaskIds : CancelledAtAwait(t)
  \/ \E t \in TaskIds : CancelSwallowed(t)

\* a step of task t: the event loop resumes a task that is ready, its sleeps and
\* its sends return, and a cancelled task is stepped.  A task is not ready while
\* another task runs, so its steps are enabled again and again, not all the time
TaskStepOf(t) ==
  \/ MonitorUserSkins(t)
  \/ EvaluateItem(t)
  \/ AttemptSteamPurchase(t)
  \/ ConfirmPurchase(t)
  \/ RecordPurchase(t)
  \/ QuotaMessageSent(t)
  \/ CancelledAtAwait(t)
  \/ CancelSwallowed(t)

\* attempt_steam_purchase of task t returns
PurchaseCompletesOf(t) ==
  /\ AttemptSteamPurchase(t) \/ ConfirmPurchase(t) \/ CancelSwallowed(t)
  /\ tasks'[t].pc = "notify"

SpecStop ==
  /\ Init
  /\ [][NextStop]_vars
  /\ \A t \in TaskIds : SF_vars(TaskStepOf(t))
  /\ \A t \in TaskIds : SF_vars(PurchaseCompletesOf(t))

\* ---- properties ----
Session(u) == user_sessions[u]
\* the tasks of user u that are inside the while loop and will evaluate items
\* again: a pending cancellation ends a task unless the task sleeps where the
\* cancellation is swallowed
LoopTasks(u) ==
  {t \in TaskIds : /\ tasks[t].user = u
                   /\ tasks[t].pc \in LoopPcs
                   /\ (tasks[t].cancel => tasks[t].pc = "confirm")}
\* the step marks an item processed for u, that is, it evaluates an item
Evaluates(u) == ~(processed_skins'[u] \subseteq processed_skins[u])
\* task t ends in this step by running the end of monitor_user_skins
Ends(t) == tasks[t].pc \in LoopPcs /\ tasks'[t].pc \in {"done", "quotanotify"}
\* the opportunity task t has in flight is over after this step (the process
\* itself goes on)
OpportunityEnds(t) ==
  /\ tasks[t].pc \in OpportunityPcs
  /\ tasks'[t].pc \notin OpportunityPcs \cup {"free"}
RowAppended(u) == Len(purchases'[u]) = Len(purchases[u]) + 1

\* everything the program holds, in memory and in the tables
ProgramState ==
  <<user_sessions, processed_skins, known_creators, monitoring_tasks, tasks,
    db_sessions, db_processed, db_creators, db_first_seen, purchases>>
\* the step is a stop of user u, by the command or by the button
Stops(u) == StopMonitoringCommand(u) \/ StopMonitoringInline(u)

\* the step is a start of user u, by the command or by the button
Starts(u) == StartMonitoringCommand(u) \/ StartMonitoringInline(u)
\* the step creates a loop task for user u
Spawns(u) ==
  \E t \in TaskIds :
    tasks[t].pc # "created" /\ tasks'[t].pc = "created" /\ tasks'[t].user = u

\* the step is task t evaluating the item dict it, new for its user, at the head
\* of its page, with the creator lookups answering lk
EvaluatesWith(t, it, lk) ==
  /\ tasks[t].pc = "iter"
  /\ it.id = Head(tasks[t].page)
  /\ it.id \notin processed_skins[tasks[t].user]
  /\ processed_skins' = [processed_skins EXCEPT ![tasks[t].user] = @ \cup {it.id}]
  /\ db_processed' = [db_processed EXCEPT ![tasks[t].user] = @ \cup {it.id}]
  /\ ProcessItemWithLookup(t, tasks[t].user, it, Tail(tasks[t].page), lk)
\* the item dicts the feed can hold for the item at the head of the page of t
HeadItems(t) == IF tasks[t].pc = "iter" THEN FeedItems(Head(tasks[t].page)) ELSE {}
\* the step accepts item dict it for the user of task t
Accepts(t, it) ==
  /\ calls'.accepted = it.id
  /\ calls'.user = tasks[t].user
  /\ user_sessions'[tasks[t].user].purchased_count
       = user_sessions[tasks[t].user].purchased_count + 1
\* the step is a rejection: no counter change, no row, no notification, no
\* purchase attempt
Rejects ==
  /\ UNCHANGED <<user_sessions, db_sessions, purchases, monitoring_tasks>>
  /\ [calls' EXCEPT !.lookups = 0] = NoCalls

\* C1: at most one monitor loop task per user is alive: no reachable state has two
\* tasks of the same user that can both still evaluate items.
C1_SingleLoopPerUser == \A u \in Users : Cardinality(LoopTasks(u)) <= 1

\* C2: in every reachable state and for every user,
\* 0 <= purchased_count <= max_purchases, in memory and in the table.
C2_QuotaBounds ==
  \A u \in Users :
    /\ 0 <= Session(u).purchased_count
    /\ Session(u).purchased_count <= Session(u).max_purchases
    /\ 0 <= db_sessions[u].purchased_count
    /\ db_sessions[u].purchased_count <= db_sessions[u].max_purchases
\* a user has used up a quota of more than one opportunity
C2_Witness ==
  \E u \in Users : Session(u).purchased_count = Session(u).max_purchases
                   /\ Session(u).max_purchases > 1

EvaluatesRecorded(t) ==
  /\ tasks[t].pc = "iter"
  /\ tasks'[t].pc # "free"
  /\ \E k \in 1..Len(purchases[tasks[t].user]) :
       purchases[tasks[t].user][k].skin_id = Head(tasks[t].page)
\* the step changes nothing but the position of the task in its page
NoStateChange ==
  /\ UNCHANGED <<user_sessions, processed_skins, known_creators, monitoring_tasks,
                 db_sessions, db_processed, db_creators, db_first_seen, purchases>>
  /\ calls' = NoCalls

\* C4 as stated: with or without a reset in between, the evaluation of an item
\* the user already has an OpportunityRecord for is a rejection that changes no
\* state.
C4_SecondEvaluationNoOp ==
  [][\A t \in TaskIds : EvaluatesRecorded(t) => NoStateChange]_vars

\* C4 (amended): at most one row of purchases is ever written for a (user, item id)
\* pair, with or without a reset in between; the evaluation of an item that is in
\* the processed set of the user is a rejection that changes nothing but the
\* position of the task in the page; after a reset the item is evaluated afresh
\* (it is marked processed again), and it is rejected when the user already has a
\* row for it.
C4_IdempotentDedup ==
  /\ [](\A u \in Users, i \in ItemIds :
          Cardinality({k \in 1..Len(purchases[u]) : purchases[u][k].skin_id = i}) <= 1)
  /\ [][\A t \in TaskIds :
          (/\ tasks[t].pc = "iter"
           /\ Head(tasks[t].page) \in processed_skins[tasks[t].user]
           /\ tasks'[t].pc # "free")
          => NoStateChange]_vars
  /\ [][\A t \in TaskIds :
          EvaluatesRecorded(t)
          => /\ calls' = NoCalls
             /\ UNCHANGED <<user_sessions, db_sessions, known_creators, db_creators, db_first_seen,
                            monitoring_tasks, purchases>>]_vars
\* after a reset the feed returns an item the user already has a row for
C4_Witness ==
  \E t \in TaskIds :
    /\ tasks[t].pc = "iter"
    /\ Head(tasks[t].page) \notin processed_skins[tasks[t].user]
    /\ \E k \in 1..Len(purchases[tasks[t].user]) :
         purchases[tasks[t].user][k].skin_id = Head(tasks[t].page)

\* C5: a creator that has been recorded is never removed from the cache or from the
\* table, also when the process restarts, and no item of a recorded creator is
\* accepted afterwards.
C5_NoveltyCacheOneWay ==
  [][/\ known_creators \subseteq known_creators'
     /\ \A c \in CreatorIds : db_creators[c] # 0 => db_creators'[c] # 0
     /\ calls'.accepted # 0 => CreatorOf(calls'.accepted) \notin known_creators]_vars
\* an item of a creator recorded by an opportunity of one user is about to be
\* evaluated for the other user
C5_Witness ==
  \E t \in TaskIds, o \in Users :
    /\ tasks[t].pc = "iter"
    /\ tasks[t].user # o
    /\ Head(tasks[t].page) \notin processed_skins[tasks[t].user]
    /\ CreatorOf(Head(tasks[t].page)) \in known_creators
    /\ \E k \in 1..Len(purchases[o]) :
         purchases[o][k].creator_id = CreatorOf(Head(tasks[t].page))

\* C6: a step that accepts an opportunity for a user in test mode does not call
\* attempt_steam_purchase, and no other step calls it either.
C6_TestModeNeverPurchases ==
  [][calls'.purchase => (calls'.accepted # 0 /\ ~user_sessions[calls'.user].test_mode)]_vars
\* an opportunity was accepted in test mode that live mode would have bought
C6_Witness ==
  /\ calls.accepted # 0
  /\ ~calls.purchase
  /\ Session(calls.user).test_mode
  /\ Session(calls.user).auto_purchase
  /\ Session(calls.user).steam_session_token # NoToken
  /\ calls.price > 0
  /\ calls.price <= Session(calls.user).max_price_cents

\* C7: in live mode a step that accepts an opportunity calls attempt_steam_purchase
\* if and only if auto_purchase is on, a token is set and 0 < price <=
\* max_price_cents; the call is made in the accepting step and in no other step.
C7_LivePurchaseGate ==
  [][/\ (calls'.accepted # 0 /\ ~user_sessions[calls'.user].test_mode)
          => (calls'.purchase <=>
                /\ user_sessions[calls'.user].auto_purchase
                /\ user_sessions[calls'.user].steam_session_token # NoToken
                /\ calls'.price # None
                /\ 0 < calls'.price
                /\ calls'.price <= user_sessions[calls'.user].max_price_cents)
     /\ calls'.purchase => calls'.accepted # 0]_vars
\* the purchase action was called for an opportunity within the price ceiling
C7_Witness ==
  /\ calls.purchase
  /\ calls.accepted # 0
  /\ ~Session(calls.user).test_mode
  /\ calls.price <= Session(calls.user).max_price_cents

\* C8: every accepted opportunity (every increment of purchased_count) results in
\* exactly one row appended to purchases for that user: the step that ends the
\* opportunity appends it, whether the opportunity was in flight in a purchase
\* attempt or a notification or was over in the accepting step.
C8_OneRecordPerOpportunity ==
  [][/\ \A t \in TaskIds : OpportunityEnds(t) => RowAppended(tasks[t].user)
     /\ \A t \in TaskIds :
          (calls'.accepted # 0 /\ tasks[t].pc = "iter" /\ tasks'[t].pc \notin OpportunityPcs)
          => RowAppended(tasks[t].user)]_vars

\* C9: every accepted opportunity produces exactly one call of send_user_message:
\* it is made in the accepting step or when the purchase attempt is over, and in
\* no other step.
C9_OneNotificationPerOpportunity ==
  [][/\ \A t \in TaskIds :
          (calls'.accepted # 0 /\ tasks[t].pc = "iter")
          => \/ calls'.send = "opportunity" /\ tasks'[t].pc = "notify"
             \/ calls'.send = "none" /\ tasks'[t].pc = "purchase"
     /\ \A t \in TaskIds :
          (tasks[t].pc \in {"purchase", "confirm"}
           /\ tasks'[t].pc \notin {"purchase", "confirm", "free"})
          => calls'.send = "opportunity" /\ tasks'[t].pc = "notify"
     /\ calls'.send = "opportunity"
          => \E t \in TaskIds : tasks[t].pc \in {"iter", "purchase", "confirm"}
                                /\ tasks'[t].pc = "notify"]_vars

\* C10: once purchased_count has reached max_purchases no step evaluates an item
\* for that user, neither the rest of the current page nor a later poll, until
\* the counter is reset.
C10_NoEvaluationAfterQuota ==
  [][\A u \in Users :
       Session(u).purchased_count >= Session(u).max_purchases => ~Evaluates(u)]_vars
\* the quota is reached while items of the current page are still to come
C10_Witness ==
  \E t \in TaskIds :
    /\ tasks[t].pc = "notify"
    /\ tasks[t].page # <<>>
    /\ Session(tasks[t].user).purchased_count = Session(tasks[t].user).max_purchases

\* C11: under fair scheduling of the task, and when the user neither stops nor
\* resets, a running loop whose user has purchased_count = max_purchases
\* eventually ends by itself: is_monitoring becomes false.
C11_QuotaExhaustionLeadsToIdle ==
  \A u \in Users :
    (Session(u).is_monitoring /\ LoopTasks(u) # {}
       /\ Session(u).purchased_count = Session(u).max_purchases)
    ~> (~Session(u).is_monitoring /\ LoopTasks(u) = {})
\* the loop sleeps between two polls with the quota used up and the flag still set
C11_Witness ==
  \E t \in TaskIds :
    /\ tasks[t].pc = "sleep"
    /\ Session(tasks[t].user).is_monitoring
    /\ Session(tasks[t].user).purchased_count = Session(tasks[t].user).max_purchases

\* C12: while is_monitoring of a user is false (a stop has completed and no start
\* has succeeded since), no step evaluates an item for that user and no step
\* calls attempt_steam_purchase for that user.
C12_NoEvaluationAfterStop ==
  [][\A u \in Users :
       ~Session(u).is_monitoring
       => /\ ~Evaluates(u)
          /\ ~(calls'.purchase /\ calls'.user = u)]_vars

\* C13: a stop for a user whose is_monitoring is false changes nothing (sessions,
\* registry, tasks, processed sets, counters, creator cache, tables), and every
\* stop leaves is_monitoring false, so a second stop right after a stop is such
\* a stop and leaves the state of the first.
C13_StopIdempotent ==
  [][\A u \in Users :
       /\ (Stops(u) /\ ~Session(u).is_monitoring) => UNCHANGED ProgramState
       /\ Stops(u) => (~user_sessions'[u].is_monitoring /\ monitoring_tasks'[u] = 0)]_vars
\* a loop was ended by a stop before its quota was used up, and the user can
\* send a second stop
C13_Witness ==
  \E t \in TaskIds, u \in Users :
    /\ tasks[t].pc = "done"
    /\ Quiescent
    /\ ~Session(u).is_monitoring
    /\ processed_skins[u] # {}
    /\ Session(u).purchased_count < Session(u).max_purchases

\* C14: a start for a user with purchased_count >= max_purchases changes nothing
\* (no task, the flag as it was); a task is created for a user only when
\* purchased_count < max_purchases; and purchased_count goes down only by a
\* reset, which sets it to 0 and empties the processed set.
C14_StartRejectedOnQuota ==
  [][\A u \in Users :
       /\ (Starts(u) /\ Session(u).purchased_count >= Session(u).max_purchases)
            => UNCHANGED ProgramState
       /\ Spawns(u) => Session(u).purchased_count < Session(u).max_purchases
       /\ user_sessions'[u].purchased_count < Session(u).purchased_count
            => (user_sessions'[u].purchased_count = 0 /\ processed_skins'[u] = {})]_vars
\* the quota is used up, the loop has ended and a start would pass the other tests
C14_Witness ==
  \E u \in Users :
    /\ Quiescent
    /\ Session(u).purchased_count >= Session(u).max_purchases
    /\ ~Session(u).is_monitoring
    /\ Session(u).steam_session_token # NoToken
    /\ FreeSlots # {}

\* C15: for a user with no token who is not monitoring and has quota left, a
\* start creates the loop task exactly when test_mode is true, and this is so
\* for the /monitor command and for the Start Monitoring button.
C15_TokenRequiredInLiveModeOnly ==
  \A u \in Users :
    (/\ Quiescent
     /\ FreeSlots # {}
     /\ Session(u).steam_session_token = NoToken
     /\ ~Session(u).is_monitoring
     /\ Session(u).purchased_count < Session(u).max_purchases)
    => /\ (ENABLED (StartMonitoringCommand(u) /\ Spawns(u))) <=> Session(u).test_mode
       /\ (ENABLED (StartMonitoringInline(u) /\ Spawns(u))) <=> Session(u).test_mode

\* C16: a confirmed reset of user u sets purchased_count of u to 0 and empties the
\* processed set of u, in memory and in the tables, and changes nothing else:
\* the other session fields of u, the sessions and processed sets of the other
\* users, the rows of purchases, the creator cache, the registry and the tasks.
C16_ResetFrame ==
  [][\A u \in Users :
       ResetConfirm(u, u)
       => /\ user_sessions' = [user_sessions EXCEPT ![u].purchased_count = 0]
          /\ db_sessions' = [db_sessions EXCEPT ![u].purchased_count = 0]
          /\ processed_skins' = [processed_skins EXCEPT ![u] = {}]
          /\ db_processed' = [db_processed EXCEPT ![u] = {}]
          /\ UNCHANGED <<known_creators, db_creators, db_first_seen, monitoring_tasks, tasks,
                         purchases>>]_vars
\* a user has reset after an opportunity was recorded, while the other user has
\* progress of their own
C16_Witness ==
  \E u \in Users, o \in Users :
    /\ u # o
    /\ Session(u).purchased_count = 0
    /\ processed_skins[u] = {}
    /\ db_processed[u] = {}
    /\ purchases[u] # <<>>
    /\ Session(o).purchased_count > 0
    /\ processed_skins[o] # {}

\* C17: when the creator of an item that passed the filters is not in the cache
\* and the profile lookup answers 404, another status that is not 200, or
\* raises, the step accepts the item.
C17_FailOpenLookup ==
  [][\A t \in TaskIds : \A it \in HeadItems(t) :
       \A lk \in {l \in Lookups : l.profile # HttpOk} :
         (/\ PassesFilters(it)
          /\ it.creatorId \notin known_creators
          /\ EvaluatesWith(t, it, lk))
         => Accepts(t, it)]_vars
\* an item that is new for the user and whose creator is not in the cache is at
\* the head of the page of a user in live mode
C17_Witness ==
  \E t \in TaskIds :
    /\ tasks[t].pc = "iter"
    /\ Head(tasks[t].page) \notin processed_skins[tasks[t].user]
    /\ CreatorOf(Head(tasks[t].page)) \notin known_creators
    /\ ~Session(tasks[t].user).test_mode

\* C18: when the creator of an item that passed the filters is not in the cache
\* and both lookups answer 200: with a count above 1 the step records the creator
\* (cache and table, with the count) and rejects the item; with a count of 0 or 1
\* the step accepts the item.
C18_ItemCountDecides ==
  [][\A t \in TaskIds : \A it \in HeadItems(t) :
       \A lk \in {l \in Lookups : l.profile = HttpOk /\ l.items = HttpOk} :
         (/\ PassesFilters(it)
          /\ it.creatorId \notin known_creators
          /\ EvaluatesWith(t, it, lk))
         => IF lk.total > 1
            THEN /\ Rejects
                 /\ known_creators' = known_creators \cup {it.creatorId}
                 /\ db_creators' = [db_creators EXCEPT ![it.creatorId] = lk.total]
            ELSE Accepts(t, it)]_vars
\* a creator was recorded with a count above 1 and no user has a row for an item
\* of that creator
C18_Witness ==
  \E c \in CreatorIds :
    /\ c \in known_creators
    /\ db_creators[c] > 1
    /\ \A u \in Users : \A k \in 1..Len(purchases[u]) : purchases[u][k].creator_id # c

\* a lookup that would make is_first_time_creator record the creator
DisqualifyingLookup == [profile |-> HttpOk, items |-> HttpOk, total |-> MaxTotal]

\* the age in days the filter measures: from timeAccepted when present,
\* otherwise from timeCreated
MeasuredAge(it) == IF it.timeAccepted # None THEN it.timeAccepted ELSE it.timeCreated

\* C19: for an accepted item with a creator id, the age is measured from
\* timeAccepted when present and from timeCreated otherwise; an item of exactly
\* max_item_age_days days passes the filter (it is accepted when its creator is
\* found first-time) and an item of max_item_age_days + 1 days is rejected with
\* no lookup result recorded.
C19_AgeBoundary ==
  [][\A t \in TaskIds : \A it \in HeadItems(t) :
       (it.isAccepted /\ it.creatorId # None)
       => /\ \A lk \in {l \in Lookups : l.profile # HttpOk} :
               (/\ MeasuredAge(it) = MaxItemAgeDays
                /\ it.creatorId \notin known_creators
                /\ EvaluatesWith(t, it, lk))
               => Accepts(t, it)
          /\ \A lk \in {NoLookup, DisqualifyingLookup} :
               (/\ MeasuredAge(it) = MaxItemAgeDays + 1
                /\ EvaluatesWith(t, it, lk))
               => (Rejects /\ UNCHANGED <<known_creators, db_creators, db_first_seen>>)]_vars
\* an item whose timeCreated, the only timestamp it has, is exactly
\* max_item_age_days days old can be drawn for the item at the head of the page
C19_Witness ==
  \E t \in TaskIds : \E it \in HeadItems(t) :
    /\ it.id \notin processed_skins[tasks[t].user]
    /\ it.timeAccepted = None
    /\ it.timeCreated = MaxItemAgeDays
    /\ it.creatorId \notin known_creators \cup {None}

\* the item dict fails the validation: not accepted, no creator id, no timestamp
\* or a timestamp that cannot be parsed
Malformed(it) ==
  \/ ~it.isAccepted
  \/ it.creatorId = None
  \/ MeasuredAge(it) \in {None, BadTime}

\* C20: an item that is not accepted, has no creator id, has neither timestamp or
\* has a timestamp that cannot be parsed is rejected, whether the lookups would
\* raise or would disqualify the creator: no cache change (so no lookup result),
\* no counter change, no row, no notification; and the task goes on with the
\* next item of the page, or sleeps when the page is finished.
C20_FailClosedValidation ==
  [][\A t \in TaskIds : \A it \in HeadItems(t) :
       \A lk \in {NoLookup, DisqualifyingLookup} :
       (Malformed(it) /\ EvaluatesWith(t, it, lk))
       => /\ Rejects
          /\ UNCHANGED <<known_creators, db_creators, db_first_seen>>
          /\ IF Tail(tasks[t].page) # <<>>
             THEN tasks'[t].pc = "iter" /\ tasks'[t].page = Tail(tasks[t].page)
             ELSE tasks'[t].pc = "sleep"]_vars
\* a loop has evaluated an item and goes on with the page, and nothing was ever
\* accepted or recorded
C20_Witness ==
  \E t \in TaskIds :
    /\ tasks[t].pc = "iter"
    /\ processed_skins[tasks[t].user] # {}
    /\ known_creators = {}
    /\ Session(tasks[t].user).purchased_count = 0
    /\ \A c \in CreatorIds : db_creators[c] = 0


\* the step is task t taking the item at the head of its page (not the end of
\* the process)
TakesHead(t) == tasks[t].pc = "iter" /\ tasks'[t].pc # "free"

\* C21: the dedup mark is unconditional and comes first.  A step that takes an
\* item from the page leaves it in the processed set of the user, in memory and
\* in the table, whatever the evaluation did (rejected, accepted, raised); an
\* item that is in the processed set is not evaluated (the step changes nothing
\* but the position in the page); the processed set is the same in memory and in
\* the table, so a restart keeps it; and it loses an item only by a reset of
\* that user.
C21_DedupMarkFirst ==
  /\ [](processed_skins = db_processed)
  /\ [][\A t \in TaskIds :
          TakesHead(t)
          => /\ Head(tasks[t].page) \in processed_skins'[tasks[t].user]
             /\ Head(tasks[t].page) \in db_processed'[tasks[t].user]
             /\ Head(tasks[t].page) \in processed_skins[tasks[t].user] => NoStateChange]_vars
  /\ [][\A u \in Users :
          ~(processed_skins[u] \subseteq processed_skins'[u]) => ResetConfirm(u, u)]_vars
\* the feed returns again an item whose evaluation raised: the counter was
\* incremented for it, no row was written and no opportunity is in flight
C21_Witness ==
  \E t \in TaskIds :
    /\ tasks[t].pc = "iter"
    /\ Head(tasks[t].page) \in processed_skins[tasks[t].user]
    /\ Session(tasks[t].user).purchased_count > 0
    /\ purchases[tasks[t].user] = <<>>
    /\ \A o \in TaskIds : tasks[o].pc \notin OpportunityPcs


\* a lookup that would let the creator pass: the profile is not found
PassingLookup == [profile |-> HttpNotFound, items |-> TransportError, total |-> 0]

\* the creators an opportunity was accepted for: those of the rows of purchases
\* and those of the opportunities in flight
AcceptedCreators ==
  UNION {{purchases[u][k].creator_id : k \in 1..Len(purchases[u])} : u \in Users}
    \cup {tasks[t].cur.creator : t \in {o \in TaskIds : tasks[o].pc \in OpportunityPcs}}

\* C22: the step that accepts an item records its creator in the cache and in
\* the table; every creator an opportunity was accepted for, of any user, is in
\* the cache and in the table from then on; and every evaluation of an item
\* whose creator is in the cache, for any user and whatever the lookups would
\* answer, is a rejection.
C22_AcceptedCreatorRejectedLater ==
  /\ [](\A c \in AcceptedCreators : c \in known_creators /\ db_creators[c] # 0)
  /\ [][calls'.accepted # 0
          => /\ CreatorOf(calls'.accepted) \in known_creators'
             /\ db_creators'[CreatorOf(calls'.accepted)] # 0]_vars
  /\ [][\A t \in TaskIds :
          (/\ tasks[t].pc = "iter"
           /\ CreatorOf(Head(tasks[t].page)) \in known_creators
           /\ Head(tasks[t].page) \notin processed_skins[tasks[t].user])
          => \A it \in HeadItems(t) : \A lk \in {NoLookup, PassingLookup} :
               EvaluatesWith(t, it, lk) => Rejects]_vars
\* an opportunity of one user is in flight and an item of the same creator, new
\* for the other user, is at the head of the page of the other user
C22_Witness ==
  \E t \in TaskIds, o \in TaskIds :
    /\ tasks[o].pc = "notify"
    /\ tasks[t].pc = "iter"
    /\ tasks[t].user # tasks[o].user
    /\ Head(tasks[t].page) \notin processed_skins[tasks[t].user]
    /\ CreatorOf(Head(tasks[t].page)) = tasks[o].cur.creator


\* the step is task t, woken at the head of the while loop with the loop
\* condition true, fetching the feed and getting status
FetchesWith(t, status) ==
  /\ tasks[t].pc \in {"created", "sleep"}
  /\ ~tasks[t].cancel
  /\ LoopCondition(Session(tasks[t].user))
  /\ CheckNewSkinsWithStatus(t, status)

\* C23: a fetch of the feed that raises or answers a status other than 200
\* changes no session, processed set, counter, creator cache, registry or table
\* and sends nothing; the task stays in the loop with is_monitoring set and its
\* next fetch comes only after the sleep of the loop.
C23_FailedFetchSkipsTick ==
  [][\A t \in TaskIds : \A status \in FeedStatuses \ {HttpOk} :
       FetchesWith(t, status)
       => /\ UNCHANGED <<user_sessions, processed_skins, known_creators,
                         monitoring_tasks, db_sessions, db_processed, db_creators, db_first_seen,
                         purchases>>
          /\ calls' = NoCalls
          /\ tasks' = [tasks EXCEPT ![t].pc = "sleep"]
          /\ user_sessions'[tasks[t].user].is_monitoring]_vars
\* a loop that has made progress (items seen, an opportunity counted) is about to
\* fetch the feed again
C23_Witness ==
  \E t \in TaskIds :
    /\ tasks[t].pc = "sleep"
    /\ ~tasks[t].cancel
    /\ LoopCondition(Session(tasks[t].user))
    /\ monitoring_tasks[tasks[t].user] = t
    /\ processed_skins[tasks[t].user] # {}
    /\ Session(tasks[t].user).purchased_count > 0


\* what the program holds for the users other than u and for the tasks other
\* than t, and what all users share
OthersState(u, t) ==
  <<[o \in Users \ {u} |-> <<user_sessions[o], processed_skins[o], monitoring_tasks[o],
                              db_sessions[o], db_processed[o], purchases[o]>>],
    [o \in TaskIds \ {t} |-> tasks[o]],
    known_creators, db_creators, db_first_seen>>

\* C24: when an error reaches the while loop of the task of a user, that user is
\* sent the error text; when the send returns the task ends with is_monitoring of
\* that user false, in memory and in the table, and the user unregistered; the
\* task is not put back into the loop, and a new task is created only by a start
\* of the user; the error and the end of the task change nothing of the other
\* users: their sessions, processed sets, rows, registry entries and tasks, and
\* the creator cache.
C24_LoopFatalErrorIsolated ==
  [][/\ \A t \in TaskIds, u \in Users :
          (tasks[t].user = u /\ tasks[t].pc # "errornotify" /\ tasks'[t].pc = "errornotify")
          => /\ calls' = [NoCalls EXCEPT !.user = u, !.send = "error"]
             /\ UNCHANGED OthersState(u, t)
             /\ UNCHANGED <<user_sessions, processed_skins, purchases>>
     /\ \A t \in TaskIds, u \in Users :
          (/\ tasks[t].user = u
           /\ tasks[t].pc = "errornotify"
           /\ tasks'[t].pc \notin {"errornotify", "free"})
          => /\ tasks'[t].pc \in {"done", "quotanotify"}
             /\ ~user_sessions'[u].is_monitoring
             /\ ~db_sessions'[u].is_monitoring
             /\ monitoring_tasks'[u] = 0
             /\ UNCHANGED OthersState(u, t)
     /\ \A u \in Users : Spawns(u) => StartMonitoringInline(u)]_vars
\* the error message of one user is being sent while the loop of the other user
\* is running and has made progress
C24_Witness ==
  \E t \in TaskIds, o \in TaskIds :
    /\ tasks[t].pc = "errornotify"
    /\ tasks[o].pc \in {"sleep", "notify"}
    /\ tasks[o].user # tasks[t].user
    /\ Session(tasks[o].user).is_monitoring
    /\ processed_skins[tasks[o].user] # {}


\* the last row of purchases of user u
LastRow(u) == purchases'[u][Len(purchases'[u])]

C26_QuotaMessageNotOnStop ==
  [][\A t \in TaskIds, u \in Users :
       (tasks[t].user = u /\ Ends(t))
       => ((calls'.send = "quota" /\ calls'.user = u)
             <=> (/\ ~tasks[t].cancel
                  /\ Session(u).purchased_count >= Session(u).max_purchases))]_vars


\* the creators user u has an accepted opportunity for: those of the rows of u
\* and of the opportunities the tasks of u have in flight
AcceptedCreatorsOf(u) ==
  {purchases[u][k].creator_id : k \in 1..Len(purchases[u])}
    \cup {tasks[t].cur.creator :
            t \in {o \in TaskIds : tasks[o].user = u /\ tasks[o].pc \in OpportunityPcs}}

\* the opportunity of task o was accepted and is not over, and task t, of another
\* user, is about to evaluate an item of the same creator that is new for its
\* user
RaceWindow(t, o) ==
  /\ tasks[o].pc \in OpportunityPcs
  /\ tasks[t].pc = "iter"
  /\ tasks[t].user # tasks[o].user
  /\ Head(tasks[t].page) \notin processed_skins[tasks[t].user]
  /\ CreatorOf(Head(tasks[t].page)) = tasks[o].cur.creator

\* C27 as stated: the loops of two users that evaluate items of the same
\* brand-new creator can both accept: while the opportunity of one user is still
\* in flight, the evaluation of the other user can accept the item.
C27_BothUsersCanAccept ==
  \A t \in TaskIds, o \in TaskIds :
    RaceWindow(t, o) => ENABLED (EvaluateItem(t) /\ calls'.accepted # 0)

\* C27 (amended): there is no cross-user race on the novelty check.  The check
\* and the recording of the creator run without a suspension in between, so in
\* no reachable state two different users have an accepted opportunity for the
\* same creator, and while the opportunity of one user is in flight the
\* evaluation of an item of that creator for another user cannot accept.
C27_NoCrossUserRace ==
  /\ \A u \in Users, o \in Users :
       u # o => AcceptedCreatorsOf(u) \cap AcceptedCreatorsOf(o) = {}
  /\ \A t \in TaskIds, o \in TaskIds :
       RaceWindow(t, o) => ~ENABLED (EvaluateItem(t) /\ calls'.accepted # 0)
\* both users have evaluated the item of a creator, one has a row for it and the
\* other has accepted nothing
C27_Witness ==
  \E u \in Users, o \in Users, i \in ItemIds :
    /\ u # o
    /\ i \in processed_skins[u] \cap processed_skins[o]
    /\ \E k \in 1..Len(purchases[u]) : purchases[u][k].skin_id = i
    /\ purchases[o] = <<>>
    /\ Session(o).purchased_count = 0


\* task t is about to evaluate an item that is new for its user and whose
\* creator is not in the cache, and the user is in test mode with auto-purchase
\* enabled
TestModeWindow(t) ==
  /\ tasks[t].pc = "iter"
  /\ Head(tasks[t].page) \notin processed_skins[tasks[t].user]
  /\ CreatorOf(Head(tasks[t].page)) \notin known_creators
  /\ Session(tasks[t].user).test_mode
  /\ Session(tasks[t].user).auto_purchase
\* the step accepts an item whose price is within the budget of user u
AcceptsInBudget(u) ==
  /\ calls'.accepted # 0
  /\ calls'.user = u
  /\ 0 < calls'.price
  /\ calls'.price <= user_sessions[u].max_price_cents

SuccessfulRows(u) == Cardinality({k \in 1..Len(purchases[u]) : purchases[u][k].success})

\* C29: purchased_count counts successful purchases only: when no opportunity of
\* the user is being evaluated or is in flight, and every counted opportunity has
\* its row, the counter is at most the number of rows with success = true (a
\* reset only lowers the counter).
C29_CounterCountsSuccessesOnly ==
  \A u \in Users :
    (/\ \A t \in TaskIds :
          tasks[t].user = u => tasks[t].pc \notin OpportunityPcs \cup {"iter"}
     /\ Session(u).purchased_count <= Len(purchases[u]))
    => Session(u).purchased_count <= SuccessfulRows(u)


\* user u has no data of their own: nothing processed, no row, nothing counted
NoOwnData(u) ==
  /\ processed_skins[u] = {}
  /\ db_processed[u] = {}
  /\ purchases[u] = <<>>
  /\ Session(u).purchased_count = 0

\* C30: what is accepted for a user does not depend on the other users.  For a
\* user who has no data of their own, the evaluation of an item that passes the
\* filters, with lookups that let the creator pass, accepts the item, whatever
\* the other users have done.
C30_UsersIsolated ==
  [][\A t \in TaskIds, u \in Users :
       (tasks[t].user = u /\ tasks[t].pc = "iter" /\ NoOwnData(u))
       => \A it \in HeadItems(t) :
            (PassesFilters(it) /\ EvaluatesWith(t, it, PassingLookup))
            => Accepts(t, it)]_vars


\* C31: a row of the table creators is created once per creator and afterwards
\* it is never written again: in every step, by any user and also across a
\* restart, a creator that has a row keeps it, first_seen of the row is
\* unchanged and skin_count of the row does not decrease; and the creators with
\* a row are the creators of the cache.
C31_CreatorRecordStable ==
  /\ [](known_creators = {c \in CreatorIds : db_creators[c] # 0})
  /\ [](\A c \in CreatorIds : db_creators[c] # 0 <=> db_first_seen[c] # 0)
  /\ [][\A c \in CreatorIds :
          db_creators[c] # 0
          => /\ db_creators'[c] # 0
             /\ db_first_seen'[c] = db_first_seen[c]
             /\ db_creators'[c] >= db_creators[c]]_vars
\* an item of a creator whose row was written with a count above 1, earlier than
\* the row of another creator, is about to be evaluated and is new for the user
C31_Witness ==
  \E t \in TaskIds, c \in CreatorIds, o \in CreatorIds :
    /\ tasks[t].pc = "iter"
    /\ Head(tasks[t].page) \notin processed_skins[tasks[t].user]
    /\ CreatorOf(Head(tasks[t].page)) = c
    /\ db_creators[c] > 1
    /\ db_first_seen[o] > db_first_seen[c]
    /\ db_first_seen[c] > 0


\* C32: between resets the progress of a user is monotone.  Every step that is
\* not a confirmed reset of user u (a step of a task, a handler, a restart of the
\* process) keeps every id of the processed set of u, in memory and in the
\* table, and leaves purchased_count of u as it was or larger by exactly 1.
C32_ProgressMonotone ==
  [][\A u \in Users :
       ~ResetConfirm(u, u)
       => /\ processed_skins[u] \subseteq processed_skins'[u]
          /\ db_processed[u] \subseteq db_processed'[u]
          /\ user_sessions'[u].purchased_count
               \in {Session(u).purchased_count, Session(u).purchased_count + 1}
          /\ db_sessions'[u].purchased_count
               \in {db_sessions[u].purchased_count, db_sessions[u].purchased_count + 1}]_vars
\* the process was restarted (no task exists) after the user had made progress,
\* and the progress is there
C32_Witness ==
  \E u \in Users :
    /\ \A t \in TaskIds : tasks[t].pc = "free"
    /\ processed_skins[u] # {}
    /\ Session(u).purchased_count > 0
    /\ purchases[u] # <<>>


\* the loop of user u is running: the flag is set and a task of u is in the loop
Running(u) == Session(u).is_monitoring /\ LoopTasks(u) # {}

\* C33: while the loop of a user is running, the processed set and
\* purchased_count of that user are changed only by a step of a loop task of
\* that user evaluating an item: no handler (start, stop, reset, settings) and no
\* task of another user changes them.
C33_OnlyOwnTaskMutatesProgress ==
  [][\A u \in Users :
       (/\ Running(u)
        /\ \/ processed_skins'[u] # processed_skins[u]
           \/ user_sessions'[u].purchased_count # Session(u).purchased_count)
       => \E t \in TaskIds : tasks[t].user = u /\ EvaluateItem(t)]_vars


\* C34: the cache is consulted before any lookup.  A step that evaluates an item
\* whose creator is in the cache makes no request to the creator profile or to
\* the items of the creator and rejects the item, changing neither the cache nor
\* the table; and a step makes such requests only when it evaluates an item
\* whose creator is not in the cache.
C34_CachedCreatorNoLookup ==
  [][/\ \A t \in TaskIds :
          (/\ tasks[t].pc = "iter"
           /\ tasks'[t].pc # "free"
           /\ CreatorOf(Head(tasks[t].page)) \in known_creators)
          => /\ calls'.lookups = 0
             /\ Rejects
             /\ UNCHANGED <<known_creators, db_creators, db_first_seen>>
     /\ calls'.lookups # 0
          => \E t \in TaskIds :
               /\ tasks[t].pc = "iter"
               /\ Head(tasks[t].page) \notin processed_skins[tasks[t].user]
               /\ CreatorOf(Head(tasks[t].page)) \notin known_creators]_vars
\* an item that is new for the user and whose creator was recorded by an
\* acceptance is about to be evaluated, and the user has no row and nothing
\* counted
C34_Witness ==
  \E t \in TaskIds :
    /\ tasks[t].pc = "iter"
    /\ Head(tasks[t].page) \notin processed_skins[tasks[t].user]
    /\ CreatorOf(Head(tasks[t].page)) \in known_creators
    /\ db_creators[CreatorOf(Head(tasks[t].page))] = 1
    /\ purchases[tasks[t].user] = <<>>
    /\ Session(tasks[t].user).purchased_count = 0


\* task t has returned from monitor_user_skins, or is in its last statement
Terminated(t) == tasks[t].pc \in {"done", "free", "quotanotify"}

\* C35: cancellation is observed.  Under fair scheduling, a loop task that a stop
\* has cancelled eventually terminates, wherever the stop found it: in the sleep
\* between two polls, in the send of a notification or inside a purchase
\* attempt.
C35_CancellationObserved ==
  \A t \in TaskIds : tasks[t].cancel ~> Terminated(t)


\* C36: in every reachable state, the states after a restart of the process
\* included, a user whose is_monitoring is true has a loop task: nobody is shown
\* as monitoring, and refused a start, while no task polls for them.
C36_MonitoringFlagHasTask ==
  \A u \in Users :
    Session(u).is_monitoring
    => \E t \in TaskIds : tasks[t].user = u /\ ~Terminated(t)


\* task t is a live loop task: it is in the loop and no cancellation is pending
Live(t) == tasks[t].pc \in LoopPcs /\ ~tasks[t].cancel

\* C37: every live loop task is registered in monitoring_tasks under the id of
\* its user, so a stop can cancel it; and the cleanup of a task that ends never
\* removes the registry entry of another task, started later for the same user.
C37_LiveTaskRegistered ==
  /\ [](\A t \in TaskIds : Live(t) => monitoring_tasks[tasks[t].user] = t)
  /\ [][\A t \in TaskIds, u \in Users :
          (tasks[t].user = u /\ Ends(t) /\ monitoring_tasks[u] # t)
          => monitoring_tasks'[u] = monitoring_tasks[u]]_vars


\* C38: whenever the loop of a user is running in live mode (test_mode false),
\* the user has a token set, after any sequence of starts, stops, token settings
\* and toggles of the test mode, a toggle while the loop runs included.
C38_LiveLoopHasToken ==
  \A u \in Users :
    (Running(u) /\ ~Session(u).test_mode) => Session(u).steam_session_token # NoToken


\* C39: a reset confirmation applies only to the caller.  In no reachable state
\* can a reset_confirm callback pressed by user u whose embedded id is another
\* user r change anything: not the session, the counter or the processed set
\* of u, not those of r, nothing else.
C39_ForeignResetChangesNothing ==
  \A u \in Users, r \in Users :
    u # r => ~ENABLED (ResetConfirm(u, r) /\ vars' # vars)
\* no task is running, so a callback can be handled, and both users have
\* progress of their own and a loop in its sleep
C39_Witness ==
  /\ Quiescent
  /\ \A u \in Users :
       /\ processed_skins[u] # {}
       /\ Session(u).purchased_count > 0
       /\ \E t \in TaskIds : tasks[t].user = u /\ tasks[t].pc = "sleep"

====
